---- MODULE Spec2Model ----
(***************************************************************************)
(* Model of src/main/wordCloud_tree.py: a Flask service with three GET     *)
(* routes (/, /api/wordcloud, /api/news), the news fetcher, the text       *)
(* preprocessor and the word-cloud renderer writing wordcloud.png.         *)
(*                                                                         *)
(* Strings are sequences of one-character strings.  Hangul syllables are   *)
(* written romanised ("iss" "da" is the two-syllable word U+C788 U+B2E4).  *)
(***************************************************************************)
EXTENDS Integers, Sequences, FiniteSets, TLC

VARIABLES
    now,          \* wall clock, in hours (read by the log formatter only)
    lastRefresh,  \* history: {clock value at the last completed to_file}, {} if none
    fileExists,   \* wordcloud.png exists on disk
    fileData,     \* wordcloud.png content, a sequence of chunks
    lastGood,     \* history: content written by the last completed to_file
    pc,           \* per worker thread: position inside the request handler
    route,        \* per worker thread: the route being served
    outcome,      \* per worker thread: what requests.get met in fetch_naver_news
    items,        \* per worker thread: the list fetch_naver_news returned
    exc,          \* per worker thread: exception that escaped the handler
    response,     \* per worker thread: the HTTP response produced
    fetchCalls,   \* per worker thread: calls of fetch_naver_news in this request
    apiRequests,  \* per worker thread: requests.get calls in this request
    renderCalls,  \* per worker thread: calls of generate_wordcloud in this request
    wpos,         \* per worker thread: chunks written through its open file
    arrival,      \* per worker thread, history: the refresh state its request met
    text,         \* input of preprocess_text under SpecPreprocess
    word_freq,    \* output of preprocess_text under SpecPreprocess
    articles,     \* input of the news_endpoint loop under SpecNews
    news_list,    \* output of the news_endpoint loop under SpecNews
    called        \* which pure function has been applied

serverVars == <<now, lastRefresh, fileExists, fileData, lastGood, pc, route,
                outcome, items, exc, response, fetchCalls, apiRequests,
                renderCalls, wpos, arrival>>
pureVars == <<text, word_freq, articles, news_list, called>>
vars == <<serverVars, pureVars>>

-----------------------------------------------------------------------------
(* Bounds *)
MaxTextLen == 5
MaxArticles == 3
MaxTicks == 1
ImageChunks == 2

-----------------------------------------------------------------------------
(* Characters *)

\* the syllables of the range [U+AC00-U+D7A3] that the model uses
HangulChars == {"geot", "su", "iss", "da", "ha", "ui", "reul", "i", "e", "ga",
                "eun", "deul", "seo", "bun", "ri", "geo", "jae", "hwal", "yong"}

\* other characters matched by \w: letters, digits, underscore
OtherWordChars == {"a", "b", "m", "p", "l", "t", "g", "x", "y", "1", "_"}

IsHangul(c) == c \in HangulChars

IsWordChar(c) == c \in HangulChars \cup OtherWordChars

Range(s) == {s[i] : i \in DOMAIN s}

SeqsUpTo(S, n) == UNION {[1..k -> S] : k \in 0..n}

-----------------------------------------------------------------------------
(* preprocess_text *)

\* \b at the gap after the first i characters of t
Boundary(t, i) ==
    LET before == i >= 1 /\ IsWordChar(t[i])
        after  == i < Len(t) /\ IsWordChar(t[i + 1])
    IN  before # after

RECURSIVE HangulRun(_, _)
\* number of consecutive [U+AC00-U+D7A3] characters after the first i of t
HangulRun(t, i) ==
    IF i < Len(t) /\ IsHangul(t[i + 1]) THEN 1 + HangulRun(t, i + 1) ELSE 0

MinRun == 2

\* length of the match of \b[..]{2,}\b starting after the first i characters
\* (greedy, backtracking to shorter runs), 0 when there is none
MatchLen(t, i) ==
    IF ~Boundary(t, i) THEN 0
    ELSE LET n == HangulRun(t, i)
             ends == {k \in MinRun..n : Boundary(t, i + k)}
         IN  IF ends = {} THEN 0
             ELSE CHOOSE k \in ends : \A j \in ends : j <= k

RECURSIVE FindAllFrom(_, _)
FindAllFrom(t, i) ==
    IF i >= Len(t) THEN <<>>
    ELSE LET k == MatchLen(t, i)
         IN  IF k > 0
             THEN <<SubSeq(t, i + 1, i + k)>> \o FindAllFrom(t, i + k)
             ELSE FindAllFrom(t, i + 1)

\* re.findall(r'\b[..]{2,}\b', text)
FindAll(t) == FindAllFrom(t, 0)

stop_words == {<<"geot">>, <<"su">>, <<"iss", "da">>, <<"ha", "da">>, <<"ui">>,
               <<"reul">>, <<"i">>, <<"e">>, <<"ga">>, <<"eun">>, <<"deul">>,
               <<"e", "seo">>}

\* collections.Counter of a list
Counter(s) == [w \in Range(s) |-> Cardinality({i \in DOMAIN s : s[i] = w})]

NotStopWord(w) == w \notin stop_words

\* faulty variant: the stop-word filter is dropped
preprocess_text_nofilter(t) == Counter(FindAll(t))

preprocess_text(t) == Counter(SelectSeq(FindAll(t), NotStopWord))

-----------------------------------------------------------------------------
(* title normalisation and the news list *)

RECURSIVE Replace(_, _, _)
\* str.replace(old, new): leftmost non-overlapping occurrences
Replace(s, old, new) ==
    IF Len(s) < Len(old) THEN s
    ELSE IF SubSeq(s, 1, Len(old)) = old
         THEN new \o Replace(SubSeq(s, Len(old) + 1, Len(s)), old, new)
         ELSE <<s[1]>> \o Replace(Tail(s), old, new)

\* the named character references the model uses, each with and without ";"
Entities == {<<<<"a", "m", "p", ";">>, "&">>, <<<<"a", "m", "p">>, "&">>,
             <<<<"l", "t", ";">>, "<">>,      <<<<"l", "t">>, "<">>,
             <<<<"g", "t", ";">>, ">">>,      <<<<"g", "t">>, ">">>}

IsPrefix(p, s) == Len(p) <= Len(s) /\ SubSeq(s, 1, Len(p)) = p

RECURSIVE Unescape(_)
\* html.unescape: one left-to-right pass, the longest reference wins
Unescape(s) ==
    IF s = <<>> THEN <<>>
    ELSE IF s[1] # "&" THEN <<s[1]>> \o Unescape(Tail(s))
    ELSE LET rest == Tail(s)
             hits == {e \in Entities : IsPrefix(e[1], rest)}
         IN  IF hits = {} THEN <<"&">> \o Unescape(rest)
             ELSE LET e == CHOOSE x \in hits :
                               \A y \in hits : Len(y[1]) <= Len(x[1])
                  IN  <<e[2]>> \o
                      Unescape(SubSeq(rest, Len(e[1]) + 1, Len(rest)))

BoldOpen == <<"<", "b", ">">>
BoldClose == <<"<", "/", "b", ">">>

NormalizeTitle(t) == Unescape(Replace(Replace(t, BoldOpen, <<>>), BoldClose, <<>>))

RECURSIVE NewsLoopNoDedup(_, _, _, _)
\* faulty variant: the seen_titles test is dropped
NewsLoopNoDedup(as, i, seen_titles, acc) ==
    IF i > Len(as) THEN acc
    ELSE NewsLoopNoDedup(as, i + 1, seen_titles,
             Append(acc, [title |-> NormalizeTitle(as[i].title), link |-> as[i].link]))

RECURSIVE NewsLoop(_, _, _, _)
\* the for loop of news_endpoint over articles[i..]
NewsLoop(as, i, seen_titles, acc) ==
    IF i > Len(as) THEN acc
    ELSE LET title == NormalizeTitle(as[i].title)
         IN  IF title \notin seen_titles
             THEN NewsLoop(as, i + 1, seen_titles \cup {title},
                           Append(acc, [title |-> title, link |-> as[i].link]))
             ELSE NewsLoop(as, i + 1, seen_titles, acc)

BuildNewsList(as) == NewsLoop(as, 1, {}, <<>>)

-----------------------------------------------------------------------------
(* The news provider and fetch_naver_news *)

Workers == {"w1", "w2"}

Desc1 == <<"bun", "ri", "su", "geo", " ", "iss", "da">>
Desc2 == <<"jae", "hwal", "yong", " ", "bun", "ri", "su", "geo">>
Article1 == [title |-> <<"<", "b", ">", "x", "<", "/", "b", ">">>,
             description |-> Desc1, link |-> "L1"]
Article2 == [title |-> <<"x">>, description |-> Desc2, link |-> "L2"]

\* the "items" arrays the provider answers with in the server specifications
ProviderItems == {<<>>, <<Article1, Article2>>}

\* what one requests.get can meet: a transport failure, an HTTP error status,
\* a 200 whose JSON object has no "items" member, or a 200 with items
ProviderOutcomes ==
    {[kind |-> k, items |-> <<>>] : k \in {"ConnectionError", "HTTPError", "NoItemsKey"}}
    \cup {[kind |-> "OK", items |-> it] : it \in ProviderItems}

\* one call of fetch_naver_news: the requests.get calls it made, the exception
\* that left it ("none" when it returned) and the list it returned
fetch_naver_news(o) ==
    IF o.kind \in {"ConnectionError", "HTTPError"}
    THEN [requests |-> 1, exc |-> "none", value |-> <<>>]
    ELSE IF o.kind = "NoItemsKey"
    THEN [requests |-> 1, exc |-> "KeyError", value |-> <<>>]
    ELSE [requests |-> 1, exc |-> "none", value |-> o.items]

WordcloudDisplay == 5
NewsDisplay == 10

-----------------------------------------------------------------------------
(* Responses *)

NoResponse == [status |-> 0, mimetype |-> "", error |-> "", png |-> <<>>, list |-> <<>>]

\* Flask's answer to an exception that escapes a view function
InternalServerError ==
    [status |-> 500, mimetype |-> "text/html", error |-> "", png |-> <<>>, list |-> <<>>]

\* the romanised text of the message of lines 112 and 128
ErrorMessage == "gisareul gajyeool su eopseumnida."

\* faulty variant: the status of the error answer is left at its default
ErrorResponseDefaultStatus ==
    [status |-> 200, mimetype |-> "application/json", error |-> ErrorMessage,
     png |-> <<>>, list |-> <<>>]

ErrorResponse ==
    [status |-> 500, mimetype |-> "application/json", error |-> ErrorMessage,
     png |-> <<>>, list |-> <<>>]

HomeResponse ==
    [status |-> 200, mimetype |-> "text/html", error |-> "", png |-> <<>>, list |-> <<>>]

NewsResponse(as) ==
    [status |-> 200, mimetype |-> "application/json", error |-> "", png |-> <<>>,
     list |-> BuildNewsList(as)]

ImageResponse(data) ==
    [status |-> 200, mimetype |-> "image/png", error |-> "", png |-> data, list |-> <<>>]

-----------------------------------------------------------------------------
(* generate_wordcloud and the file wordcloud.png *)

RECURSIVE Join(_)
\* " ".join(descriptions)
Join(ds) ==
    IF ds = <<>> THEN <<>>
    ELSE IF Len(ds) = 1 THEN ds[1]
    ELSE ds[1] \o <<" ">> \o Join(Tail(ds))

Descriptions(its) == [i \in DOMAIN its |-> its[i].description]

Hole == [by |-> "none", freq |-> <<>>, part |-> 0]

\* the k-th chunk of the PNG that worker h's render encodes
Chunk(h, k) == [by |-> h, freq |-> preprocess_text(Join(Descriptions(items[h]))), part |-> k]

Image(h) == [k \in 1..ImageChunks |-> Chunk(h, k)]

\* a write of chunk c at offset pos through a file object of its own position:
\* past the end of the file the gap reads as zeros
WriteAt(data, pos, c) ==
    IF pos <= Len(data) THEN [data EXCEPT ![pos] = c]
    ELSE data \o [i \in 1..(pos - Len(data) - 1) |-> Hole] \o <<c>>

\* lastUpdated of the specification is not kept by the code; the refresh is due
\* when no to_file has completed or the last one completed 24 hours ago or more
RefreshDue == \A t \in lastRefresh : now >= t + 24

-----------------------------------------------------------------------------
(* The server *)

NoArrival == [due |-> TRUE, cached |-> <<>>]

\* what a request finds when it arrives: whether a refresh is due and the image
\* the last completed to_file left
Arrival == [due |-> RefreshDue, cached |-> lastGood]

ServerInit ==
    /\ now = 0
    /\ lastRefresh = {}
    /\ fileExists = FALSE
    /\ fileData = <<>>
    /\ lastGood = <<>>
    /\ pc = [h \in Workers |-> "idle"]
    /\ route = [h \in Workers |-> ""]
    /\ outcome = [h \in Workers |-> ""]
    /\ items = [h \in Workers |-> <<>>]
    /\ exc = [h \in Workers |-> "none"]
    /\ response = [h \in Workers |-> NoResponse]
    /\ fetchCalls = [h \in Workers |-> 0]
    /\ apiRequests = [h \in Workers |-> 0]
    /\ renderCalls = [h \in Workers |-> 0]
    /\ wpos = [h \in Workers |-> 0]
    /\ arrival = [h \in Workers |-> NoArrival]

PureIdle ==
    /\ text = <<>>
    /\ word_freq = <<>>
    /\ articles = <<>>
    /\ news_list = <<>>
    /\ called = "none"

Init == ServerInit /\ PureIdle

\* GET /
home(h) ==
    /\ pc[h] = "idle"
    /\ route' = [route EXCEPT ![h] = "/"]
    /\ response' = [response EXCEPT ![h] = HomeResponse]
    /\ pc' = [pc EXCEPT ![h] = "done"]
    /\ UNCHANGED <<now, lastRefresh, fileExists, fileData, lastGood, outcome, items,
                   exc, fetchCalls, apiRequests, renderCalls, wpos, arrival, pureVars>>

\* faulty variant: the test of line 111 is missing
NoDescriptionsIgnored(descriptions) == FALSE

\* "if not descriptions", line 111
NoDescriptions(descriptions) == descriptions = <<>>

\* lines 109-112 of wordcloud_endpoint once requests.get has met outcome o
WordcloudFetched(h, o) ==
    LET r == fetch_naver_news(o)
        descriptions == Descriptions(r.value)
    IN  /\ route' = [route EXCEPT ![h] = "/api/wordcloud"]
        /\ arrival' = [arrival EXCEPT ![h] = Arrival]
        /\ outcome' = [outcome EXCEPT ![h] = o.kind]
        /\ fetchCalls' = [fetchCalls EXCEPT ![h] = @ + 1]
        /\ apiRequests' = [apiRequests EXCEPT ![h] = @ + r.requests]
        /\ items' = [items EXCEPT ![h] = r.value]
        /\ exc' = [exc EXCEPT ![h] = r.exc]
        /\ response' = [response EXCEPT ![h] =
               IF r.exc # "none" THEN InternalServerError
               ELSE IF NoDescriptions(descriptions) THEN ErrorResponse
               ELSE NoResponse]
        /\ pc' = [pc EXCEPT ![h] =
               IF r.exc # "none" \/ NoDescriptions(descriptions) THEN "done" ELSE "render"]
        /\ UNCHANGED <<now, lastRefresh, fileExists, fileData, lastGood,
                       renderCalls, wpos, pureVars>>

\* faulty variant: the handler consults a refresh gate and skips the fetch when fresh
wordcloud_fetch_gated(h) ==
    /\ pc[h] = "idle"
    /\ IF RefreshDue
       THEN \E o \in ProviderOutcomes :
                Len(o.items) <= WordcloudDisplay /\ WordcloudFetched(h, o)
       ELSE /\ route' = [route EXCEPT ![h] = "/api/wordcloud"]
            /\ arrival' = [arrival EXCEPT ![h] = Arrival]
            /\ pc' = [pc EXCEPT ![h] = "send"]
            /\ UNCHANGED <<now, lastRefresh, fileExists, fileData, lastGood, outcome,
                           items, exc, response, fetchCalls, apiRequests,
                           renderCalls, wpos, pureVars>>

\* GET /api/wordcloud, lines 108-112: the fetch and the test of its result
wordcloud_fetch(h) ==
    /\ pc[h] = "idle"
    /\ \E o \in ProviderOutcomes :
        /\ Len(o.items) <= WordcloudDisplay
        /\ WordcloudFetched(h, o)


\* generate_wordcloud, lines 79-88 up to the opening of output_path by to_file:
\* the mask, the font or the layout may fail (caught and logged at lines 90-91),
\* otherwise to_file opens the file for writing, which truncates it
render_open(h) ==
    /\ pc[h] = "render"
    /\ renderCalls' = [renderCalls EXCEPT ![h] = @ + 1]
    /\ \E loaded \in BOOLEAN :
        IF loaded
        THEN /\ fileExists' = TRUE
             /\ fileData' = <<>>
             /\ wpos' = [wpos EXCEPT ![h] = 0]
             /\ pc' = [pc EXCEPT ![h] = "write"]
        ELSE /\ pc' = [pc EXCEPT ![h] = "send"]
             /\ UNCHANGED <<fileExists, fileData, wpos>>
    /\ UNCHANGED <<now, lastRefresh, lastGood, route, outcome, items, exc, response,
                   fetchCalls, apiRequests, arrival, pureVars>>

\* to_file, line 88: the encoder writes the next chunk through this worker's file
\* object, or fails (caught and logged at lines 90-91) and leaves what is written;
\* after the last chunk the render is complete (line 89).  Whether the library
\* removes a file that a failed save itself created is not modelled: either way
\* no complete image is left
write_chunk(h) ==
    /\ pc[h] = "write"
    /\ \E written \in BOOLEAN :
        IF written
        THEN /\ fileData' = WriteAt(fileData, wpos[h] + 1, Chunk(h, wpos[h] + 1))
             /\ wpos' = [wpos EXCEPT ![h] = @ + 1]
             /\ IF wpos[h] + 1 = ImageChunks
                THEN /\ pc' = [pc EXCEPT ![h] = "send"]
                     /\ lastRefresh' = {now}
                     /\ lastGood' = Image(h)
                ELSE UNCHANGED <<pc, lastRefresh, lastGood>>
        ELSE /\ pc' = [pc EXCEPT ![h] = "send"]
             /\ UNCHANGED <<fileData, wpos, lastRefresh, lastGood>>
    /\ UNCHANGED <<now, fileExists, route, outcome, items, exc, response,
                   fetchCalls, apiRequests, renderCalls, arrival, pureVars>>

\* send_file(output_path, mimetype="image/png"), line 119
send(h) ==
    /\ pc[h] = "send"
    /\ IF fileExists
       THEN /\ response' = [response EXCEPT ![h] = ImageResponse(fileData)]
            /\ UNCHANGED exc
       ELSE /\ response' = [response EXCEPT ![h] = InternalServerError]
            /\ exc' = [exc EXCEPT ![h] = "FileNotFoundError"]
    /\ pc' = [pc EXCEPT ![h] = "done"]
    /\ UNCHANGED <<now, lastRefresh, fileExists, fileData, lastGood, route, outcome,
                   items, fetchCalls, apiRequests, renderCalls, wpos, arrival, pureVars>>

\* lines 125-142 of news_endpoint once requests.get has met outcome o
NewsFetched(h, o) ==
    LET r == fetch_naver_news(o)
    IN  /\ route' = [route EXCEPT ![h] = "/api/news"]
        /\ arrival' = [arrival EXCEPT ![h] = Arrival]
        /\ outcome' = [outcome EXCEPT ![h] = o.kind]
        /\ fetchCalls' = [fetchCalls EXCEPT ![h] = @ + 1]
        /\ apiRequests' = [apiRequests EXCEPT ![h] = @ + r.requests]
        /\ items' = [items EXCEPT ![h] = r.value]
        /\ exc' = [exc EXCEPT ![h] = r.exc]
        /\ response' = [response EXCEPT ![h] =
               IF r.exc # "none" THEN InternalServerError
               ELSE IF r.value = <<>> THEN ErrorResponse
               ELSE NewsResponse(r.value)]
        /\ pc' = [pc EXCEPT ![h] = "done"]

\* faulty variant: the news handler regenerates the image as well
news_endpoint_rendering(h) ==
    /\ pc[h] = "idle"
    /\ \E o \in ProviderOutcomes :
        /\ Len(o.items) <= NewsDisplay
        /\ NewsFetched(h, o)
    /\ fileExists' = TRUE
    /\ fileData' = <<>>
    /\ UNCHANGED <<now, lastRefresh, lastGood, renderCalls, wpos, pureVars>>

\* GET /api/news
news_endpoint(h) ==
    /\ pc[h] = "idle"
    /\ \E o \in ProviderOutcomes :
        /\ Len(o.items) <= NewsDisplay
        /\ NewsFetched(h, o)
    /\ UNCHANGED <<now, lastRefresh, fileExists, fileData, lastGood, renderCalls,
                   wpos, pureVars>>

\* the response has been sent and the worker thread takes the next request
finish(h) ==
    /\ pc[h] = "done"
    /\ pc' = [pc EXCEPT ![h] = "idle"]
    /\ route' = [route EXCEPT ![h] = ""]
    /\ outcome' = [outcome EXCEPT ![h] = ""]
    /\ items' = [items EXCEPT ![h] = <<>>]
    /\ exc' = [exc EXCEPT ![h] = "none"]
    /\ response' = [response EXCEPT ![h] = NoResponse]
    /\ fetchCalls' = [fetchCalls EXCEPT ![h] = 0]
    /\ apiRequests' = [apiRequests EXCEPT ![h] = 0]
    /\ renderCalls' = [renderCalls EXCEPT ![h] = 0]
    /\ wpos' = [wpos EXCEPT ![h] = 0]
    /\ arrival' = [arrival EXCEPT ![h] = NoArrival]
    /\ UNCHANGED <<now, lastRefresh, fileExists, fileData, lastGood, pureVars>>

\* a day passes
Tick ==
    /\ now < 24 * MaxTicks
    /\ now' = now + 24
    /\ UNCHANGED <<lastRefresh, fileExists, fileData, lastGood, pc, route, outcome,
                   items, exc, response, fetchCalls, apiRequests, renderCalls, wpos,
                   arrival, pureVars>>

Step(h) ==
    \/ home(h)
    \/ wordcloud_fetch(h)
    \/ render_open(h)
    \/ write_chunk(h)
    \/ send(h)
    \/ news_endpoint(h)
    \/ finish(h)

\* requests served by the threads of the development server, interleaved
Next == Tick \/ \E h \in Workers : Step(h)

Spec == Init /\ [][Next]_vars

\* no other worker is inside a handler
Alone(h) == \A g \in Workers \ {h} : pc[g] \in {"idle", "done"}

\* requests served one at a time
SeqNext == Tick \/ \E h \in Workers : Alone(h) /\ Step(h)

SeqSpec == Init /\ [][SeqNext]_vars

-----------------------------------------------------------------------------
(* preprocess_text applied to every text over a small alphabet *)

\* two syllables of a stop word, one other syllable, a blank, a Latin letter
TextChars == {"iss", "da", "geo", " ", "x"}

InitPreprocess ==
    /\ ServerInit
    /\ text \in SeqsUpTo(TextChars, MaxTextLen)
    /\ word_freq = <<>>
    /\ articles = <<>>
    /\ news_list = <<>>
    /\ called = "none"

ApplyPreprocess ==
    /\ called = "none"
    /\ word_freq' = preprocess_text(text)
    /\ called' = "preprocess_text"
    /\ UNCHANGED <<serverVars, text, articles, news_list>>

SpecPreprocess == InitPreprocess /\ [][ApplyPreprocess]_vars

(* the loop of news_endpoint applied to every short list of articles *)

TitleBoldX == <<"<", "b", ">", "x", "<", "/", "b", ">">>
TitleX == <<"x">>
TitleEscaped == <<"x", " ", "&", "a", "m", "p", ";", " ", "y">>
TitleAmp == <<"x", " ", "&", " ", "y">>
TitleY == <<"<", "b", ">", "y">>

RawTitles == {TitleBoldX, TitleX, TitleEscaped, TitleAmp, TitleY}
Links == {"L1", "L2"}

InputArticles == {[title |-> t, description |-> Desc1, link |-> l] :
                      t \in RawTitles, l \in Links}

InitNews ==
    /\ ServerInit
    /\ articles \in SeqsUpTo(InputArticles, MaxArticles) \ {<<>>}
    /\ news_list = <<>>
    /\ text = <<>>
    /\ word_freq = <<>>
    /\ called = "none"

ApplyNews ==
    /\ called = "none"
    /\ news_list' = BuildNewsList(articles)
    /\ called' = "news_endpoint"
    /\ UNCHANGED <<serverVars, text, word_freq, articles>>

SpecNews == InitNews /\ [][ApplyNews]_vars

-----------------------------------------------------------------------------
(* Properties *)

Done(h, r) == pc[h] = "done" /\ route[h] = r

\* C1 as stated: a wordcloud request that arrives while now < lastUpdated + 24h
\* makes no fetch call and no render, and one that arrives when the refresh is
\* due (or lastUpdated is absent) makes exactly one fetch attempt.
C1_GatedOncePerDay ==
    \A h \in Workers : Done(h, "/api/wordcloud") =>
        IF arrival[h].due
        THEN fetchCalls[h] = 1
        ELSE fetchCalls[h] = 0 /\ renderCalls[h] = 0

\* C1 amended: the refresh is not gated.  Every wordcloud request, whatever the
\* time since the last completed render, makes exactly one fetch call with one
\* provider request, and one render call exactly when the fetch returned an
\* article.
C1_EveryRequestFetches ==
    \A h \in Workers : Done(h, "/api/wordcloud") =>
        /\ fetchCalls[h] = 1
        /\ apiRequests[h] = 1
        /\ renderCalls[h] = IF items[h] # <<>> THEN 1 ELSE 0

C1_Witness ==
    \E h \in Workers :
        /\ Done(h, "/api/wordcloud")
        /\ ~arrival[h].due
        /\ arrival[h].cached # <<>>
        /\ fetchCalls[h] = 1
        /\ renderCalls[h] = 1

C3_StaleImageServed ==
    \A h \in Workers :
        (Done(h, "/api/wordcloud") /\ items[h] = <<>> /\ arrival[h].cached # <<>>)
        => response[h] = ImageResponse(arrival[h].cached)

\* C3 amended: once a render has completed, a wordcloud request whose fetch
\* yields no article makes no render call and answers 500 without the image;
\* when fetch_naver_news returned the empty list the body is the error JSON.
C3_EmptyFetchIsError ==
    \A h \in Workers :
        (Done(h, "/api/wordcloud") /\ items[h] = <<>> /\ arrival[h].cached # <<>>)
        => /\ response[h].status = 500
           /\ response[h].png = <<>>
           /\ renderCalls[h] = 0
           /\ (exc[h] = "none" => response[h].error = ErrorMessage)

C3_Witness ==
    \E h \in Workers :
        /\ Done(h, "/api/wordcloud")
        /\ outcome[h] = "ConnectionError"
        /\ arrival[h].cached # <<>>
        /\ fileData = arrival[h].cached
        /\ response[h] = ErrorResponse

\* C4: when the render of a wordcloud request fails, nothing is raised to the
\* handler and the request serves the image left by the last completed render,
\* if there is one.  (Checked with requests served one at a time.)
C4_RenderFailureServesLastGood ==
    \A h \in Workers :
        (/\ Done(h, "/api/wordcloud")
         /\ renderCalls[h] = 1
         /\ wpos[h] < ImageChunks
         /\ arrival[h].cached # <<>>)
        => /\ exc[h] = "none"
           /\ response[h] = ImageResponse(arrival[h].cached)

\* C5: GET /api/news answers 500 with the error JSON exactly when the fetch
\* yields no article, otherwise 200 with the list of {title, link}; every
\* request calls the fetcher once.
C5_NewsAnswer ==
    \A h \in Workers : Done(h, "/api/news") =>
        /\ fetchCalls[h] = 1
        /\ response[h] = IF items[h] = <<>> THEN ErrorResponse
                         ELSE NewsResponse(items[h])

\* C7: a call of fetch_naver_news makes at most one provider request, never
\* raises, and returns the empty list on a transport failure, an HTTP error
\* status or an unusable response.
C7_FetchNeverRaises ==
    \A h \in Workers : fetchCalls[h] > 0 =>
        /\ apiRequests[h] <= fetchCalls[h]
        /\ exc[h] # "KeyError"
        /\ (outcome[h] # "OK" => items[h] = <<>>)

\* C9: when two wordcloud requests have both completed their render, the file
\* is the complete image of one of the two renders, never a mix.
C9_LastWriterWins ==
    (\A h \in Workers :
        Done(h, "/api/wordcloud") /\ arrival[h].due /\ wpos[h] = ImageChunks)
    => fileData \in {Image(h) : h \in Workers}

\* C10: only a wordcloud request whose own fetch returned an article changes
\* wordcloud.png (news requests, home requests and wordcloud requests with an
\* empty fetch leave it alone), and a wordcloud request makes exactly one fetch
\* call and at most one render call.
C10_OnlyNonEmptyWordcloudWrites ==
    /\ [](\A h \in Workers : Done(h, "/api/wordcloud") =>
            fetchCalls[h] = 1 /\ renderCalls[h] <= 1)
    /\ [][(fileData' # fileData \/ fileExists' # fileExists) =>
            \E h \in Workers :
                /\ route[h] = "/api/wordcloud"
                /\ items[h] # <<>>
                /\ pc[h] \in {"render", "write"}
                /\ pc'[h] # pc[h] \/ wpos'[h] # wpos[h]]_vars

C10_Witness ==
    \E h, g \in Workers :
        /\ Done(h, "/api/news")
        /\ Done(g, "/api/wordcloud")
        /\ items[g] = <<>>
        /\ fileExists
        /\ fileData = lastGood


\* the i-th article's normalised title
Norm(i) == NormalizeTitle(articles[i].title)

\* the positions whose normalised title has not occurred before
FirstSeen == {i \in DOMAIN articles : \A j \in 1..(i - 1) : Norm(j) # Norm(i)}

\* C6: the news list holds no two entries of the same normalised title; it has
\* one entry for each distinct normalised title, carrying the link of the
\* title's first occurrence, in the order of the first occurrences.
C6_DedupFirstSeenStable ==
    called = "news_endpoint" =>
        /\ \A a, b \in DOMAIN news_list :
               a # b => news_list[a].title # news_list[b].title
        /\ Len(news_list) = Cardinality(FirstSeen)
        /\ \A i \in FirstSeen :
               LET k == Cardinality({j \in FirstSeen : j <= i})
               IN  news_list[k] = [title |-> Norm(i), link |-> articles[i].link]

C6_Witness ==
    /\ called = "news_endpoint"
    /\ Len(news_list) = 2
    /\ \E i, j \in DOMAIN articles :
        /\ i < j
        /\ articles[i].title # articles[j].title
        /\ articles[i].link # articles[j].link
        /\ Norm(i) = Norm(j)
        /\ news_list[1].link = articles[i].link

\* w stands at offset i of t as a whole word: no \w character on either side
WholeWordAt(t, i, w) ==
    /\ i + Len(w) <= Len(t)
    /\ SubSeq(t, i + 1, i + Len(w)) = w
    /\ (i >= 1 => ~IsWordChar(t[i]))
    /\ (i + Len(w) < Len(t) => ~IsWordChar(t[i + Len(w) + 1]))

\* C8: every key of the frequency map is a run of at least two Hangul
\* characters that occurs in the text, no key is a stop word, and a key's count
\* is the number of places of the text where the token is matched.
C8_KeysAndCounts ==
    called = "preprocess_text" =>
        \A w \in DOMAIN word_freq :
            /\ Len(w) >= 2
            /\ \A k \in DOMAIN w : IsHangul(w[k])
            /\ \E i \in 0..Len(text) : i + Len(w) <= Len(text)
                                       /\ SubSeq(text, i + 1, i + Len(w)) = w
            /\ w \notin stop_words
            /\ word_freq[w] = Cardinality({i \in 0..Len(text) : WholeWordAt(text, i, w)})

C8_Witness ==
    /\ called = "preprocess_text"
    /\ <<"iss", "da">> \in Range(FindAll(text))
    /\ DOMAIN word_freq # {}

====
